---- MODULE Spec2Model ----
(***************************************************************************)
(* Replica placement engine (smcheema/allocator).                          *)
(*                                                                         *)
(* State: the ClusterState registry (nodes, shards, currentAssignment),    *)
(* the Configuration, and what the last Solve call built and returned.     *)
(* Operations: the ClusterState mutators, UpdateConfiguration, and Solve   *)
(* (newAllocator + allocate).  The CP-SAT engine is external: it is        *)
(* modelled by the meaning of the constraints the builder posts, and its   *)
(* answer is a nondeterministic choice among the solutions of the posted   *)
(* model (or no answer at all, when the search times out).                 *)
(***************************************************************************)
EXTENDS Integers, Sequences, FiniteSets, TLC

VARIABLES
    nodes,              \* ClusterState.nodes : nodeId -> node
    shards,             \* ClusterState shards/replicas : shardId -> shard
    currentAssignment,  \* ClusterState.currentAssignment : shardId -> seq of nodeId
    config,             \* Configuration handed to Solve
    reply,              \* how the last ClusterState or Configuration call ended:
                        \* "ok", the value returned, or the value it panicked with
    outcome,            \* how the last Solve ended: "idle" | "returned" | "panicked"
    allocation,         \* first return value of Solve: [isNil, map]
    err,                \* second return value of Solve: [kind, ids]
    status,             \* status the solver reported to the last Solve
    model,              \* what the last Solve had put into its solver model
    held,               \* the Allocation that the caller gave to the last
                        \* UpdateCurrentAssignment and still holds: its value, and
                        \* whether the ClusterState refers to the caller's slices
    calls               \* the Solve calls that run side by side: their allocators
                        \* (call -> allocator) and the solver models these refer to

vars ==
    <<nodes, shards, currentAssignment, config, reply, outcome, allocation, err, status, model,
      held, calls>>

cluster == <<nodes, shards, currentAssignment>>
result == <<outcome, allocation, err, status, model>>

-----------------------------------------------------------------------------
(* Bounds of the explored universe.                                        *)

MaxNodeId == 2
MaxShardId == 0
MaxRf == 2
MaxChurn == 1

NodeIds == 0..MaxNodeId
ShardIds == 0..MaxShardId
Rfs == 0..MaxRf

-----------------------------------------------------------------------------
(* Program constants.                                                      *)

DiskResource == 0
QPS == 1
noMaxChurn == -1
defaultTimeout == 10
defaultRf == 3

\* the order in which adhereToResourcesAndBalance walks the resources
ResourceOrder == <<DiskResource, QPS>>

Range(f) == {f[x] : x \in DOMAIN f}

EmptyMap == <<>>

\* Go's map lookup with a zero default: m[k] when present, otherwise 0
Lookup(m, k) == IF k \in DOMAIN m THEN m[k] ELSE 0

\* m with key k set to v (insert or overwrite)
Put(m, k, v) == [x \in (DOMAIN m) \cup {k} |-> IF x = k THEN v ELSE m[x]]

\* a removal that takes the entry of the greatest key when k has none
DeleteOrLast(m, k) ==
    IF k \in DOMAIN m \/ DOMAIN m = {} THEN [x \in (DOMAIN m) \ {k} |-> m[x]]
    ELSE LET last == CHOOSE x \in DOMAIN m : \A y \in DOMAIN m : y <= x
         IN [x \in (DOMAIN m) \ {last} |-> m[x]]

\* m without key k (no-op when absent)
Delete(m, k) == [x \in (DOMAIN m) \ {k} |-> m[x]]

RECURSIVE SumSeq(_)
SumSeq(s) == IF s = <<>> THEN 0 ELSE Head(s) + SumSeq(Tail(s))

RECURSIVE SetToSeq(_)
SetToSeq(S) == IF S = {} THEN <<>>
               ELSE LET x == CHOOSE y \in S : TRUE IN <<x>> \o SetToSeq(S \ {x})

-----------------------------------------------------------------------------
(* Domain model: nodes, shards and their option closures.                  *)

newNode(id) == [id |-> id, tags |-> <<>>, resources |-> EmptyMap]

newReplica(id, rf) == [id |-> id, rf |-> rf, tags |-> {}, nilTags |-> TRUE, demands |-> EmptyMap]

WithTagsOfNode(tags) == [op |-> "WithTagsOfNode", tags |-> tags]
AddTagsToNode(tags) == [op |-> "AddTagsToNode", tags |-> tags]
RemoveAllTagsOfNode == [op |-> "RemoveAllTagsOfNode"]
WithResourceOfNode(re, amount) == [op |-> "WithResourceOfNode", re |-> re, amount |-> amount]

ApplyNodeOption(n, o) ==
    CASE o.op = "WithTagsOfNode" -> [n EXCEPT !.tags = o.tags]
      [] o.op = "AddTagsToNode" -> [n EXCEPT !.tags = n.tags \o o.tags]
      [] o.op = "RemoveAllTagsOfNode" -> [n EXCEPT !.tags = <<>>]
      [] o.op = "WithResourceOfNode" -> [n EXCEPT !.resources = Put(n.resources, o.re, o.amount)]

RECURSIVE ApplyNodeOptions(_, _)
ApplyNodeOptions(n, opts) ==
    IF opts = <<>> THEN n ELSE ApplyNodeOptions(ApplyNodeOption(n, Head(opts)), Tail(opts))

WithReplicationFactorOfReplica(rf) == [op |-> "WithReplicationFactorOfReplica", rf |-> rf]
WithTagsOfReplica(tags) == [op |-> "WithTagsOfReplica", tags |-> tags]
RemoveAllTagsOfReplica == [op |-> "RemoveAllTagsOfReplica"]
WithDemandOfReplica(re, amount) == [op |-> "WithDemandOfReplica", re |-> re, amount |-> amount]
AddTagsToReplica(tags) == [op |-> "AddTagsToReplica", tags |-> tags]

\* WithDemandOfReplica checks its amount while the option is made, before the
\* call that takes the option has begun
ReplicaOptionsMade(opts) ==
    \A i \in DOMAIN opts : opts[i].op = "WithDemandOfReplica" => opts[i].amount >= 0

\* AddTagsToReplica assigns into modifiedReplica.tags: the tags map of a
\* replica is nil until WithTagsOfReplica makes one, and nil again after
\* RemoveAllTagsOfReplica; an assignment to an entry of a nil map panics
ReplicaOptionPanics(r, o) == o.op = "AddTagsToReplica" /\ r.nilTags /\ o.tags # <<>>

ApplyReplicaOption(r, o) ==
    CASE o.op = "WithReplicationFactorOfReplica" -> [r EXCEPT !.rf = o.rf]
      [] o.op = "WithTagsOfReplica" -> [r EXCEPT !.tags = Range(o.tags), !.nilTags = FALSE]
      [] o.op = "RemoveAllTagsOfReplica" -> [r EXCEPT !.tags = {}, !.nilTags = TRUE]
      [] o.op = "WithDemandOfReplica" -> [r EXCEPT !.demands = Put(r.demands, o.re, o.amount)]
      [] o.op = "AddTagsToReplica" -> [r EXCEPT !.tags = @ \cup Range(o.tags)]

\* the options in the order given, up to the first one that panics
RECURSIVE ApplyReplicaOptions(_, _)
ApplyReplicaOptions(r, opts) ==
    IF opts = <<>> \/ ReplicaOptionPanics(r, Head(opts)) THEN r
    ELSE ApplyReplicaOptions(ApplyReplicaOption(r, Head(opts)), Tail(opts))

RECURSIVE ReplicaOptionsPanic(_, _)
ReplicaOptionsPanic(r, opts) ==
    /\ opts # <<>>
    /\ \/ ReplicaOptionPanics(r, Head(opts))
       \/ ReplicaOptionsPanic(ApplyReplicaOption(r, Head(opts)), Tail(opts))

-----------------------------------------------------------------------------
(* Configuration and its option closures.                                  *)

WithResources(enable) == [op |-> "WithResources", enable |-> enable]
WithTagMatching(enable) == [op |-> "WithTagMatching", enable |-> enable]
WithChurnMinimized(enable) == [op |-> "WithChurnMinimized", enable |-> enable]
WithMaxChurn(k) == [op |-> "WithMaxChurn", maxChurn |-> k]
DisableMaxChurn == [op |-> "DisableMaxChurn"]
WithVerboseLogging(enable) == [op |-> "WithVerboseLogging", enable |-> enable]
WithReplicationFactor(rf) == [op |-> "WithReplicationFactor", rf |-> rf]

\* WithMaxChurn and WithReplicationFactor check their argument inside the
\* closure, when the option is applied
ConfigurationOptionPanics(o) ==
    \/ o.op = "WithMaxChurn" /\ o.maxChurn < 0
    \/ o.op = "WithReplicationFactor" /\ o.rf < 0

ApplyConfigurationOption(c, o) ==
    CASE o.op = "WithResources" -> [c EXCEPT !.withResources = o.enable]
      [] o.op = "WithTagMatching" -> [c EXCEPT !.withTagAffinity = o.enable]
      [] o.op = "WithChurnMinimized" -> [c EXCEPT !.withMinimalChurn = o.enable]
      [] o.op = "WithMaxChurn" -> [c EXCEPT !.maxChurn = o.maxChurn]
      [] o.op = "DisableMaxChurn" -> [c EXCEPT !.maxChurn = -1]
      [] o.op = "WithVerboseLogging" -> [c EXCEPT !.verboseLogging = o.enable]
      [] o.op = "WithReplicationFactor" -> [c EXCEPT !.rf = o.rf]

\* the options in the order given, up to the first one that panics
RECURSIVE ApplyConfigurationOptions(_, _)
ApplyConfigurationOptions(c, opts) ==
    IF opts = <<>> \/ ConfigurationOptionPanics(Head(opts)) THEN c
    ELSE ApplyConfigurationOptions(ApplyConfigurationOption(c, Head(opts)), Tail(opts))

\* what the first option that panics panics with, "ok" when none does
RECURSIVE ConfigurationOptionsEnd(_)
ConfigurationOptionsEnd(opts) ==
    IF opts = <<>> THEN "ok"
    ELSE IF ~ConfigurationOptionPanics(Head(opts)) THEN ConfigurationOptionsEnd(Tail(opts))
    ELSE IF Head(opts).op = "WithMaxChurn" THEN "max-churn must be greater than or equal to 0"
    ELSE "rf cannot be negative"

defaultConfiguration ==
    [withResources |-> FALSE, withTagAffinity |-> FALSE, withMinimalChurn |-> FALSE,
     maxChurn |-> noMaxChurn, searchTimeout |-> defaultTimeout,
     verboseLogging |-> FALSE, rf |-> defaultRf]

NewConfiguration(opts) == ApplyConfigurationOptions(defaultConfiguration, opts)

-----------------------------------------------------------------------------
(* Constraint builder: what allocate() puts into the solver model.         *)
(* A model under construction is a record                                  *)
(*   vars     : the decision variables <<shard, slot>> created so far      *)
(*   domain   : the set of values each decision variable ranges over       *)
(*   cons     : the constraints posted so far                              *)
(*   minimize : the Minimize calls made so far, in order                   *)
(*   order    : the shards in the order in which the variable loop went    *)
(*              through them                                               *)

NodeCount == Cardinality(DOMAIN nodes)

EmptyModel == [vars |-> {}, domain |-> {}, cons |-> {}, minimize |-> <<>>, order |-> <<>>]

Continue(m) == [end |-> "ok", ids |-> {}, m |-> m]
Panic(m) == [end |-> "panic", ids |-> {}, m |-> m]
Fail(kind, ids, m) == [end |-> kind, ids |-> ids, m |-> m]

\* the shards whose rf exceeds the number of nodes
rangeIdsWithInfeasibleRF == {s \in DOMAIN shards : shards[s].rf > NodeCount}

\* The bounds of the decision variables are read through a.nodes[0] and
\* a.nodes[len(a.nodes)-1]; nodes maps ids to pointers, so either lookup of an
\* absent id yields nil and reading its id field is a nil-pointer panic.
NodeDomainPanics == 0 \notin DOMAIN nodes \/ (NodeCount - 1) \notin DOMAIN nodes

\* make([]IntVar, rf) panics on a negative rf
VariablesPanic ==
    \E s \in DOMAIN shards :
        shards[s].rf < 0 \/ (shards[s].rf > 0 /\ NodeDomainPanics)

\* solver.NewDomain(nodes[0].id, nodes[len(nodes)-1].id): one closed interval
NodeIdDomain == nodes[0].id .. nodes[NodeCount - 1].id

AssignmentVars == UNION {{<<s, j>> : j \in 1..shards[s].rf} : s \in DOMAIN shards}

AllDifferentConstraint(s, pass) == [type |-> "AllDifferent", s |-> s, pass |-> pass]

\* First loop of allocate: decision variables and replica spread per shard, then
\* the rf check.  order: the shards the loop went through, one after the
\* other (when it panicked: the shards it had gone through by then).
DecisionVariables(order) ==
    IF VariablesPanic
    THEN Panic([EmptyModel EXCEPT
                   !.cons = {AllDifferentConstraint(s, 1) : s \in Range(order)},
                   !.order = order])
    ELSE LET m == [EmptyModel EXCEPT
                      !.order = order,
                      !.vars = AssignmentVars,
                      !.domain = IF AssignmentVars = {} THEN {} ELSE NodeIdDomain,
                      !.cons = {AllDifferentConstraint(s, 1) : s \in DOMAIN shards}]
         IN IF rangeIdsWithInfeasibleRF # {}
            THEN Fail("RfExceedsCluster", rangeIdsWithInfeasibleRF, m)
            ELSE Continue(m)

\* rawDemand: sum over the shards of demand times rf
rawDemand(re) ==
    LET order == SetToSeq(DOMAIN shards)
    IN SumSeq([i \in 1..Len(order) |->
                  Lookup(shards[order[i]].demands, re) * shards[order[i]].rf])

\* rawCapacity: node 0's capacity when it defines one, else the whole demand
rawCapacity(re) ==
    IF re \in DOMAIN nodes[0].resources THEN nodes[0].resources[re] ELSE rawDemand(re)

\* one unit-width interval per decision variable, carrying the shard's demand
Tasks(m, re) == {<<v[1], v[2], Lookup(shards[v[1]].demands, re)>> : v \in m.vars}

CumulativeConstraint(m, re) ==
    [type |-> "Cumulative", re |-> re, ub |-> rawCapacity(re),
     tasks |-> Tasks(m, re), endUb |-> NodeCount]

CapacityTerm(re) == [term |-> "capacity", re |-> re]

RECURSIVE ResourcesFrom(_, _)
ResourcesFrom(i, m) ==
    IF i > Len(ResourceOrder) THEN Continue(m)
    ELSE LET re == ResourceOrder[i] IN
         IF 0 \notin DOMAIN nodes THEN Panic(m)
         ELSE IF rawCapacity(re) * NodeCount < rawDemand(re)
              THEN Fail("InsufficientCapacity", {}, m)
              ELSE ResourcesFrom(i + 1,
                       [m EXCEPT !.cons = @ \cup {CumulativeConstraint(m, re)},
                                 !.minimize = Append(@, CapacityTerm(re))])

adhereToResourcesAndBalance(m) == ResourcesFrom(1, m)

NodeTagSet(n) == Range(nodes[n].tags)

\* TRUE iff every shard tag is a node tag
shardTagsAreSubsetOfNodeTags(shardTags, nodeTags) == \A t \in shardTags : t \in nodeTags

forbiddenAssignments(s) ==
    {n \in DOMAIN nodes : ~shardTagsAreSubsetOfNodeTags(shards[s].tags, NodeTagSet(n))}

rangeIdsWithWaywardTags ==
    {s \in DOMAIN shards : Cardinality(forbiddenAssignments(s)) = NodeCount}

ForbiddenAssignmentsConstraint(s, j) ==
    [type |-> "ForbiddenAssignments", s |-> s, j |-> j, tuples |-> forbiddenAssignments(s)]

adhereToNodeTags(m) ==
    LET m2 == [m EXCEPT !.cons = @ \cup {ForbiddenAssignmentsConstraint(v[1], v[2]) : v \in m.vars}]
    IN IF rangeIdsWithWaywardTags # {}
       THEN Fail("TagsUnsatisfiable", rangeIdsWithWaywardTags, m2)
       ELSE Continue(m2)

SecondAllDifferent(m) ==
    [m EXCEPT !.cons = @ \cup {AllDifferentConstraint(s, 2) : s \in DOMAIN shards}]

\* prevNodeIds[i] is read for every slot of a shard with a prior entry: a prior
\* list shorter than rf is an index-out-of-range panic
ChurnPanics ==
    \E s \in (DOMAIN shards) \cap (DOMAIN currentAssignment) :
        Len(currentAssignment[s]) < shards[s].rf

\* one literal per slot whose prior node is still a node of the cluster
toMinimizeTheSumLiterals ==
    UNION {{<<s, j, currentAssignment[s][j]>> :
               j \in {k \in 1..shards[s].rf : currentAssignment[s][k] \in DOMAIN nodes}} :
           s \in (DOMAIN shards) \cap (DOMAIN currentAssignment)}

OnlyEnforceIfConstraint(l) == [type |-> "OnlyEnforceIf", s |-> l[1], j |-> l[2], prev |-> l[3]]

AtMostKConstraint(k, lits) == [type |-> "AtMostK", k |-> k, lits |-> lits]

ChurnTerm(lits) == [term |-> "churn", lits |-> lits]

\* a limit that is posted whatever maxChurn holds
maxChurnAlwaysSet(c) == TRUE

\* "we use the following inequality to deem if maxChurn was set"
maxChurnSet(c) == c.maxChurn # noMaxChurn

\* c: the configuration of the allocator (a.config)
adhereToChurnConstraint(c, m) ==
    IF ChurnPanics THEN Panic(m)
    ELSE LET lits == toMinimizeTheSumLiterals
             m1 == [m EXCEPT !.cons = @ \cup {OnlyEnforceIfConstraint(l) : l \in lits}]
             m2 == IF c.withMinimalChurn
                   THEN [m1 EXCEPT !.minimize = Append(@, ChurnTerm(lits))] ELSE m1
             m3 == IF maxChurnSet(c)
                   THEN [m2 EXCEPT !.cons = @ \cup {AtMostKConstraint(c.maxChurn, lits)}]
                   ELSE m2
         IN Continue(m3)

\* an allocate that goes through the tags before it goes through the resources
BuildTagsFirst(c, order) ==
    LET s1 == DecisionVariables(order)
        s2 == IF s1.end = "ok" /\ c.withTagAffinity
              THEN adhereToNodeTags(s1.m) ELSE s1
        s3 == IF s2.end = "ok" /\ c.withResources
              THEN adhereToResourcesAndBalance(s2.m) ELSE s2
        s4 == IF s3.end = "ok" THEN Continue(SecondAllDifferent(s3.m)) ELSE s3
        s5 == IF s4.end = "ok" /\ (c.withMinimalChurn \/ c.maxChurn # noMaxChurn)
              THEN adhereToChurnConstraint(c, s4.m) ELSE s4
    IN s5

\* an allocate that goes to the prior assignment whatever the options are
BuildWithChurnAlways(c, order) ==
    LET s1 == DecisionVariables(order)
        s2 == IF s1.end = "ok" /\ c.withResources
              THEN adhereToResourcesAndBalance(s1.m) ELSE s1
        s3 == IF s2.end = "ok" /\ c.withTagAffinity
              THEN adhereToNodeTags(s2.m) ELSE s2
        s4 == IF s3.end = "ok" THEN Continue(SecondAllDifferent(s3.m)) ELSE s3
    IN IF s4.end = "ok" THEN adhereToChurnConstraint(c, s4.m) ELSE s4

\* allocate() up to the call of Validate, by an allocator whose configuration
\* (a.config) is c
BuildUnder(c, order) ==
    LET s1 == DecisionVariables(order)
        s2 == IF s1.end = "ok" /\ c.withResources
              THEN adhereToResourcesAndBalance(s1.m) ELSE s1
        s3 == IF s2.end = "ok" /\ c.withTagAffinity
              THEN adhereToNodeTags(s2.m) ELSE s2
        s4 == IF s3.end = "ok" THEN Continue(SecondAllDifferent(s3.m)) ELSE s3
        s5 == IF s4.end = "ok" /\ (c.withMinimalChurn \/ c.maxChurn # noMaxChurn)
              THEN adhereToChurnConstraint(c, s4.m) ELSE s4
    IN s5

Build(order) == BuildUnder(config, order)

-----------------------------------------------------------------------------
(* The solver: the meaning of the posted constraints.                      *)
(* A candidate f gives every shard the tuple of values of its variables.   *)

Tuples(D, k) == [1..k -> D]

\* the demand stacked on point t of the node-id axis
Load(f, tasks, t) ==
    LET on == SetToSeq({k \in tasks : f[k[1]][k[2]] = t})
    IN SumSeq([i \in 1..Len(on) |-> on[i][3]])

Points(f, tasks) == {f[k[1]][k[2]] : k \in tasks}

Peak(f, tasks) ==
    IF tasks = {} THEN 0
    ELSE LET loads == {Load(f, tasks, t) : t \in Points(f, tasks)}
         IN CHOOSE x \in loads : \A y \in loads : y <= x

\* the prior slots that f does not keep
Broken(f, lits) == {l \in lits : f[l[1]][l[2]] # l[3]}

\* a spread constraint that is never posted
AllDifferentNotPosted(f, c) == TRUE

AllDifferent(f, c) ==
    \A i, j \in DOMAIN f[c.s] : i # j => f[c.s][i] # f[c.s][j]

\* every interval [start, start+1) ends within [1, endUb], and some value of
\* the capacity variable in [0, ub] covers the load of every point
Cumulative(f, c) ==
    /\ \A k \in c.tasks : f[k[1]][k[2]] + 1 \in 1..c.endUb
    /\ \A t \in Points(f, c.tasks) : Load(f, c.tasks, t) <= c.ub

ForbiddenAssignments(f, c) == f[c.s][c.j] \notin c.tuples

\* a limit that lets one move too many through
AtMostKOffByOne(f, c) == Cardinality(Broken(f, c.lits)) <= c.k + 1

\* a literal may be false, so the implication alone excludes nothing; at most
\* k broken literals can be true only if at most k slots differ from the prior
AtMostK(f, c) == Cardinality(Broken(f, c.lits)) <= c.k

Satisfies(f, c) ==
    CASE c.type = "AllDifferent" -> AllDifferent(f, c)
      [] c.type = "Cumulative" -> Cumulative(f, c)
      [] c.type = "ForbiddenAssignments" -> ForbiddenAssignments(f, c)
      [] c.type = "OnlyEnforceIf" -> TRUE
      [] c.type = "AtMostK" -> AtMostK(f, c)

\* the constraints that read the variables of shard s alone
LocalTo(c, s) == c.type \in {"AllDifferent", "ForbiddenAssignments"} /\ c.s = s

\* the values of the variables of shard s that its own constraints admit
ShardValues(m, s) ==
    {t \in Tuples(m.domain, shards[s].rf) :
        \A c \in m.cons : LocalTo(c, s) => Satisfies((s :> t), c)}

RECURSIVE Candidates(_, _)
Candidates(m, S) ==
    IF S = {} THEN {EmptyMap}
    ELSE LET s == CHOOSE x \in S : TRUE
         IN {Put(g, s, t) : g \in Candidates(m, S \ {s}), t \in ShardValues(m, s)}

Solutions(m) ==
    {f \in Candidates(m, DOMAIN shards) : \A c \in m.cons : Satisfies(f, c)}

\* Minimize replaces the objective of the model: the last call stands
HasObjective(m) == m.minimize # <<>>

Objective(m, f) ==
    LET o == m.minimize[Len(m.minimize)]
    IN IF o.term = "capacity" THEN Peak(f, Tasks(m, o.re))
       ELSE Cardinality(Broken(f, o.lits))

\* the solutions among sols that no other solution of sols undercuts
OptimalSolutions(m, sols) ==
    IF ~HasObjective(m) THEN sols
    ELSE LET vals == {Objective(m, f) : f \in sols}
             least == CHOOSE x \in vals : \A y \in vals : x <= y
         IN {f \in sols : Objective(m, f) = least}

\* Validate: every variable has a value to take and the cumulative constraints
\* are well formed
Validate(m) ==
    /\ m.vars # {} => m.domain # {}
    /\ \A c \in m.cons :
          c.type = "Cumulative" => c.ub >= 0 /\ \A k \in c.tasks : k[3] >= 0

\* What Solve(WithTimeout) can answer.  The search may time out before it
\* finds anything (Unknown); with an objective it may stop at a solution it has
\* not proved optimal (Feasible).
SolverAnswers(m) ==
    LET sols == Solutions(m)
    IN {[status |-> "Unknown", values |-> <<>>]}
       \cup (IF sols = {}
             THEN {[status |-> "Infeasible", values |-> <<>>]}
             ELSE {[status |-> "Optimal", values |-> f] : f \in OptimalSolutions(m, sols)}
                  \cup (IF HasObjective(m)
                        THEN {[status |-> "Feasible", values |-> f] : f \in sols}
                        ELSE {}))

-----------------------------------------------------------------------------
(* Solve.                                                                  *)

NilAllocation == [isNil |-> TRUE, map |-> <<>>]
NoError == [kind |-> "nil", ids |-> {}]
Error(kind, ids) == [kind |-> kind, ids |-> ids]

\* a result that keeps the first placement of every shard only
DecodeFirstOnly(values) ==
    [isNil |-> FALSE,
     map |-> [s \in {x \in DOMAIN shards : Len(values[x]) > 0} |-> <<values[s][1]>>]]

\* res[shard] is appended to once per variable of the shard: a shard with no
\* variable gets no key
Decode(values) ==
    [isNil |-> FALSE,
     map |-> [s \in {x \in DOMAIN shards : Len(values[x]) > 0} |-> values[s]]]

Returns(a, e, st, m) ==
    /\ UNCHANGED <<held, calls>>
    /\ reply' = "none"
    /\ outcome' = "returned"
    /\ allocation' = a
    /\ err' = e
    /\ status' = st
    /\ model' = m

Panics(m) ==
    /\ UNCHANGED <<held, calls>>
    /\ reply' = "none"
    /\ outcome' = "panicked"
    /\ allocation' = NilAllocation
    /\ err' = NoError
    /\ status' = "NotInvoked"
    /\ model' = m

SolveFrom(b) ==
    IF b.end = "panic" THEN Panics(b.m)
    ELSE IF b.end # "ok" THEN Returns(NilAllocation, Error(b.end, b.ids), "NotInvoked", b.m)
    ELSE IF ~Validate(b.m) THEN Returns(NilAllocation, Error("InvalidModel", {}), "NotInvoked", b.m)
    ELSE \E ans \in SolverAnswers(b.m) :
            IF ans.status \in {"Feasible", "Optimal"}
            THEN Returns(Decode(ans.values), NoError, ans.status, b.m)
            ELSE Returns(NilAllocation, Error("NotSolved", {}), ans.status, b.m)

\* what a Solve that has built b can end with: the outcome, the allocation,
\* the error and the status of the solver
ResultsOf(b) ==
    IF b.end = "panic" THEN {<<"panicked", NilAllocation, NoError, "NotInvoked">>}
    ELSE IF b.end # "ok"
         THEN {<<"returned", NilAllocation, Error(b.end, b.ids), "NotInvoked">>}
    ELSE IF ~Validate(b.m)
         THEN {<<"returned", NilAllocation, Error("InvalidModel", {}), "NotInvoked">>}
    ELSE {IF ans.status \in {"Feasible", "Optimal"}
          THEN <<"returned", Decode(ans.values), NoError, ans.status>>
          ELSE <<"returned", NilAllocation, Error("NotSolved", {}), ans.status>> :
              ans \in SolverAnswers(b.m)}

\* the sequences without repetition of all members of S
Orderings(S) ==
    {p \in [1..Cardinality(S) -> S] : \A i, j \in 1..Cardinality(S) : i # j => p[i] # p[j]}

\* `for _, r := range a.shards` ranges over a Go map: the order of the
\* iteration is not specified and differs from one loop to the next.  A loop
\* that panics has gone through shards that need no variable only.
Traversals ==
    IF VariablesPanic
    THEN UNION {Orderings(done) : done \in SUBSET {s \in DOMAIN shards : shards[s].rf = 0}}
    ELSE Orderings(DOMAIN shards)

\* an allocator that records what it returns as the current assignment
StoresItsResult ==
    /\ currentAssignment' = IF allocation'.isNil THEN currentAssignment ELSE allocation'.map
    /\ UNCHANGED <<nodes, shards, config>>

\* The allocator holds the caller's *ClusterState and a configuration of its
\* own; allocate reads the maps of the one and the fields of the other and
\* assigns to neither.
ReadsItsInputs == UNCHANGED <<cluster, config>>

\* Calls are sequential: Solve is entered by a caller that holds no result of an
\* earlier call (any other operation drops it).
Solve ==
    /\ outcome = "idle"
    /\ \E order \in Traversals : SolveFrom(Build(order))
    /\ ReadsItsInputs

\* the caller calls Solve once more with the ClusterState and the options of
\* the call that has just returned
SolveAgain ==
    /\ outcome = "returned"
    /\ \E order \in Traversals : SolveFrom(Build(order))
    /\ ReadsItsInputs

-----------------------------------------------------------------------------
(* ClusterState and Configuration operations.  A call made after a Solve   *)
(* drops what that Solve returned.                                         *)

Idle ==
    /\ UNCHANGED calls
    /\ outcome' = "idle"
    /\ allocation' = NilAllocation
    /\ err' = NoError
    /\ status' = "NotInvoked"
    /\ model' = EmptyModel

AddNode(id, opts) ==
    /\ UNCHANGED <<shards, currentAssignment, config, held>>
    /\ IF id < 0
       THEN reply' = "node id cannot be negative" /\ nodes' = nodes
       ELSE reply' = "ok" /\ nodes' = Put(nodes, id, ApplyNodeOptions(newNode(id), opts))
    /\ Idle

RemoveNode(id) ==
    /\ UNCHANGED <<shards, currentAssignment, config, held>>
    /\ reply' = "ok"
    /\ nodes' = Delete(nodes, id)
    /\ Idle

UpdateNode(id, opts) ==
    /\ UNCHANGED <<shards, currentAssignment, config, held>>
    /\ IF id \in DOMAIN nodes
       THEN reply' = "true" /\ nodes' = [nodes EXCEPT ![id] = ApplyNodeOptions(nodes[id], opts)]
       ELSE reply' = "false" /\ nodes' = nodes
    /\ Idle

\* what AddReplica panics with, "ok" when it returns
AddReplicaEnd(id, rf, opts) ==
    IF ~ReplicaOptionsMade(opts) THEN "resourceAmount cannot be negative"
    ELSE IF id < 0 THEN "range id cannot be negative"
    ELSE IF rf < 0 THEN "range rf cannot be negative"
    ELSE IF ReplicaOptionsPanic(newReplica(id, rf), opts) THEN "assignment to entry in nil map"
    ELSE "ok"

\* the new replica is stored after its options have been applied
AddReplica(id, rf, opts) ==
    /\ UNCHANGED <<nodes, currentAssignment, config, held>>
    /\ reply' = AddReplicaEnd(id, rf, opts)
    /\ shards' = IF AddReplicaEnd(id, rf, opts) = "ok"
                 THEN Put(shards, id, ApplyReplicaOptions(newReplica(id, rf), opts))
                 ELSE shards
    /\ Idle

RemoveReplica(id) ==
    /\ UNCHANGED <<nodes, currentAssignment, config, held>>
    /\ reply' = "ok"
    /\ shards' = Delete(shards, id)
    /\ Idle

\* what UpdateReplica returns or panics with
UpdateReplicaEnd(id, opts) ==
    IF ~ReplicaOptionsMade(opts) THEN "resourceAmount cannot be negative"
    ELSE IF id \notin DOMAIN shards THEN "false"
    ELSE IF ReplicaOptionsPanic(shards[id], opts) THEN "assignment to entry in nil map"
    ELSE "true"

\* the options work on the stored replica through its pointer: what they
\* did before one of them panicked stays
UpdateReplica(id, opts) ==
    /\ UNCHANGED <<nodes, currentAssignment, config, held>>
    /\ reply' = UpdateReplicaEnd(id, opts)
    /\ shards' = IF ReplicaOptionsMade(opts) /\ id \in DOMAIN shards
                 THEN [shards EXCEPT ![id] = ApplyReplicaOptions(shards[id], opts)]
                 ELSE shards
    /\ Idle

\* a ClusterState that keeps the map and the slices it was given
KeepsTheCallersSlices(priorAllocation) == [map |-> priorAllocation, aliased |-> TRUE]

\* temp is a map made by the call, and every entry of it a slice made by the
\* call and filled element by element: nothing of it is the caller's
FreshCopy(priorAllocation) ==
    [map |-> [r \in DOMAIN priorAllocation |-> priorAllocation[r]], aliased |-> FALSE]

\* stores a fresh copy of the given allocation in place of the assignment
\* there was; the caller holds what it gave
UpdateCurrentAssignment(priorAllocation) ==
    /\ UNCHANGED <<nodes, shards, config>>
    /\ reply' = "ok"
    /\ currentAssignment' = FreshCopy(priorAllocation).map
    /\ held' = [map |-> priorAllocation, aliased |-> FreshCopy(priorAllocation).aliased]
    /\ Idle

\* the caller's Allocation is a Go map of slices: the caller assigns to it,
\* and what refers to the same slices sees the assignment
CallerAssigns(a) ==
    /\ a # held.map
    /\ UNCHANGED <<nodes, shards, config>>
    /\ reply' = "none"
    /\ held' = [held EXCEPT !.map = a]
    /\ currentAssignment' = IF held.aliased THEN a ELSE currentAssignment
    /\ Idle

\* the options work on the configuration in place
UpdateConfiguration(opts) ==
    /\ UNCHANGED <<cluster, held>>
    /\ reply' = ConfigurationOptionsEnd(opts)
    /\ config' = ApplyConfigurationOptions(config, opts)
    /\ Idle

-----------------------------------------------------------------------------
(* Solve calls that run side by side.  Every call goes through allocate    *)
(* stage by stage; between two stages of one call the other call may take  *)
(* any number of its own.                                                  *)

NoCalls == [allocators |-> EmptyMap, models |-> EmptyMap]

\* callers that share one solver model
SharedModel(c) == 0

\* model := solver.NewModel(...): a model made by the call, which no other
\* call refers to
NewModel(c) == c

\* the allocator of call c: the caller's ClusterState, a new model and
\* variable map, and a configuration of its own made from the options
newAllocator(c) == [model |-> NewModel(c), config |-> config, pc |-> "variables", res |-> <<>>]

Stages == <<"variables", "resources", "tags", "spread", "churn", "solve">>

StageAfter(pc) == Stages[(CHOOSE i \in DOMAIN Stages : Stages[i] = pc) + 1]

\* what the stage at which allocator a stands does to model m
Stage(a, m, order) ==
    CASE a.pc = "variables" -> DecisionVariables(order)
      [] a.pc = "resources" ->
            IF a.config.withResources THEN adhereToResourcesAndBalance(m) ELSE Continue(m)
      [] a.pc = "tags" ->
            IF a.config.withTagAffinity THEN adhereToNodeTags(m) ELSE Continue(m)
      [] a.pc = "spread" -> Continue(SecondAllDifferent(m))
      [] a.pc = "churn" ->
            IF a.config.withMinimalChurn \/ a.config.maxChurn # noMaxChurn
            THEN adhereToChurnConstraint(a.config, m) ELSE Continue(m)

CallSteps == UNCHANGED <<cluster, config, reply, result, held>>

\* Solve(cs, opts...) is entered: newAllocator
Enter(c) ==
    /\ c \notin DOMAIN calls.allocators
    /\ calls' = [allocators |-> Put(calls.allocators, c, newAllocator(c)),
                 models |-> Put(calls.models, NewModel(c), EmptyModel)]
    /\ CallSteps

\* one stage of allocate before the call of the solver; a stage that fails
\* or panics ends the call
Advance(c) ==
    /\ c \in DOMAIN calls.allocators
    /\ calls.allocators[c].pc \notin {"solve", "done"}
    /\ LET a == calls.allocators[c]
       IN \E order \in (IF a.pc = "variables" THEN Traversals ELSE {<<>>}) :
             LET b == Stage(a, calls.models[a.model], order)
             IN calls' =
                  [allocators |->
                      [calls.allocators EXCEPT ![c] =
                          IF b.end = "ok" THEN [a EXCEPT !.pc = StageAfter(a.pc)]
                          ELSE [a EXCEPT !.pc = "done",
                                         !.res = CHOOSE r \in ResultsOf(b) : TRUE]],
                   models |-> [calls.models EXCEPT ![a.model] = b.m]]
    /\ CallSteps

\* Validate, the call of the solver and the decoding of its answer
Answer(c) ==
    /\ c \in DOMAIN calls.allocators
    /\ calls.allocators[c].pc = "solve"
    /\ LET a == calls.allocators[c]
       IN \E r \in ResultsOf(Continue(calls.models[a.model])) :
             calls' = [calls EXCEPT !.allocators[c] = [a EXCEPT !.pc = "done", !.res = r]]
    /\ CallSteps

\* the call returns or panics to its caller with what it has ended with; its
\* allocator is dropped, and with it the model that nothing refers to any more
Leave(c) ==
    /\ c \in DOMAIN calls.allocators
    /\ calls.allocators[c].pc = "done"
    /\ LET rest == Delete(calls.allocators, c)
       IN calls' = [allocators |-> rest,
                    models |-> [k \in {rest[d].model : d \in DOMAIN rest} |->
                                   calls.models[k]]]
    /\ CallSteps

\* the state after NewClusterState() and NewConfiguration(opts...)
Constructed(opts) ==
    /\ nodes = EmptyMap
    /\ shards = EmptyMap
    /\ currentAssignment = EmptyMap
    /\ config = NewConfiguration(opts)
    /\ reply = "none"
    /\ outcome = "idle"
    /\ allocation = NilAllocation
    /\ err = NoError
    /\ status = "NotInvoked"
    /\ model = EmptyModel
    /\ held = [map |-> EmptyMap, aliased |-> FALSE]
    /\ calls = NoCalls

Init == Constructed(<<>>)

-----------------------------------------------------------------------------
(* Spec: replica spread.  Bare nodes with ids in 0..MaxNodeId, shards with *)
(* rf in 0..MaxRf, every switch of the Configuration.                      *)

SwitchOptions ==
    {WithResources(b) : b \in BOOLEAN} \cup {WithTagMatching(b) : b \in BOOLEAN}
    \cup {WithChurnMinimized(b) : b \in BOOLEAN}

AddBareNode == \E id \in NodeIds : AddNode(id, <<>>)
DropNode == \E id \in NodeIds : RemoveNode(id)
AddBareShard == \E id \in ShardIds, rf \in Rfs : AddReplica(id, rf, <<>>)
DropShard == \E id \in ShardIds : RemoveReplica(id)
Configure == \E o \in SwitchOptions : UpdateConfiguration(<<o>>)

Next ==
    \/ AddBareNode
    \/ DropNode
    \/ AddBareShard
    \/ DropShard
    \/ Configure
    \/ Solve

Spec == Init /\ [][Next]_vars

-----------------------------------------------------------------------------
(* Clusters whose node ids have gaps: nodes come and go over a wider id    *)
(* range, a single shard is placed with the default configuration.         *)

MaxGapNodeId == 3

GapNodeIds == 0..MaxGapNodeId

AddGapNode == \E id \in GapNodeIds : AddNode(id, <<>>)

DropGapNode == \E id \in GapNodeIds : RemoveNode(id)

GapNext ==
    \/ AddGapNode
    \/ DropGapNode
    \/ AddBareShard
    \/ DropShard
    \/ Solve

SpecGap == Init /\ [][GapNext]_vars

-----------------------------------------------------------------------------
(* Tag affinity: a Configuration built with tag matching on, nodes and a   *)
(* shard that carry tags, node ids wide enough to leave gaps.              *)

MaxTagNodeId == 3

TagNodeIds == 0..MaxTagNodeId

NodeTagLists == {<<"a">>, <<"a", "b">>}

ShardTagLists == {<<"a">>, <<"b">>, <<"a", "b">>}

TagsInit == Constructed(<<WithTagMatching(TRUE)>>)

AddTaggedNode == \E id \in TagNodeIds, l \in NodeTagLists : AddNode(id, <<WithTagsOfNode(l)>>)

ClearNodeTags == \E id \in TagNodeIds : UpdateNode(id, <<RemoveAllTagsOfNode>>)

DropTagNode == \E id \in TagNodeIds : RemoveNode(id)

AddTaggedShard ==
    \E id \in ShardIds, rf \in Rfs, l \in ShardTagLists :
        AddReplica(id, rf, <<WithTagsOfReplica(l)>>)

ClearShardTags == \E id \in ShardIds : UpdateReplica(id, <<RemoveAllTagsOfReplica>>)

TagsNext ==
    \/ AddTaggedNode
    \/ ClearNodeTags
    \/ DropTagNode
    \/ AddTaggedShard
    \/ ClearShardTags
    \/ DropShard
    \/ Solve

SpecTags == TagsInit /\ [][TagsNext]_vars

-----------------------------------------------------------------------------
(* Capacity: a Configuration built with resources on, nodes that declare   *)
(* disk and QPS capacity, shards that declare demands.                     *)

MaxCapNodeId == 1
MaxCapShardId == 1
MaxDisk == 2
MaxQps == 1

CapNodeIds == 0..MaxCapNodeId
CapShardIds == 0..MaxCapShardId

Amounts(re) == IF re = DiskResource THEN 1..MaxDisk ELSE 1..MaxQps

NodeResourceOptions ==
    {<<>>}
    \cup {<<WithResourceOfNode(DiskResource, d)>> : d \in Amounts(DiskResource)}
    \cup {<<WithResourceOfNode(QPS, q)>> : q \in Amounts(QPS)}
    \cup {<<WithResourceOfNode(DiskResource, d), WithResourceOfNode(QPS, q)>> :
              d \in Amounts(DiskResource), q \in Amounts(QPS)}

ReplicaDemandOptions ==
    {<<>>}
    \cup {<<WithDemandOfReplica(DiskResource, d)>> : d \in Amounts(DiskResource)}
    \cup {<<WithDemandOfReplica(QPS, q)>> : q \in Amounts(QPS)}
    \cup {<<WithDemandOfReplica(DiskResource, d), WithDemandOfReplica(QPS, q)>> :
              d \in Amounts(DiskResource), q \in Amounts(QPS)}

CapInit == Constructed(<<WithResources(TRUE)>>)

AddCapNode == \E id \in CapNodeIds, opts \in NodeResourceOptions : AddNode(id, opts)

DropCapNode == \E id \in CapNodeIds : RemoveNode(id)

AddCapShard ==
    \E id \in CapShardIds, rf \in 1..MaxRf, opts \in ReplicaDemandOptions :
        AddReplica(id, rf, opts)

DropCapShard == \E id \in CapShardIds : RemoveReplica(id)

CapNext ==
    \/ AddCapNode
    \/ DropCapNode
    \/ AddCapShard
    \/ DropCapShard
    \/ Solve

SpecCap == CapInit /\ [][CapNext]_vars

-----------------------------------------------------------------------------
(* Churn: the caller records a returned allocation as the current          *)
(* assignment, changes the cluster and the churn limits, and solves again. *)

MaxChurnNodeId == 2
MaxReplicas == 2

ChurnNodeIds == 0..MaxChurnNodeId

ChurnShardIds == {0, 1}

\* the replicas that the shards other than id ask for
ReplicasBeside(id) ==
    LET others == SetToSeq((DOMAIN shards) \ {id})
    IN SumSeq([i \in 1..Len(others) |-> shards[others[i]].rf])

AddChurnNode == \E id \in ChurnNodeIds : AddNode(id, <<>>)

DropChurnNode == \E id \in ChurnNodeIds : RemoveNode(id)

AddChurnShard ==
    \E id \in ChurnShardIds, rf \in 1..MaxReplicas :
        /\ rf + ReplicasBeside(id) <= MaxReplicas
        /\ AddReplica(id, rf, <<>>)

DropChurnShard == \E id \in ChurnShardIds : RemoveReplica(id)

RecordResult ==
    /\ outcome = "returned"
    /\ ~allocation.isNil
    /\ UpdateCurrentAssignment(allocation.map)

LimitChurn == \E k \in 0..MaxChurn : UpdateConfiguration(<<WithMaxChurn(k)>>)

UnlimitChurn == UpdateConfiguration(<<DisableMaxChurn>>)

MinimizeChurn == \E b \in BOOLEAN : UpdateConfiguration(<<WithChurnMinimized(b)>>)

ChurnNext ==
    \/ AddChurnNode
    \/ DropChurnNode
    \/ AddChurnShard
    \/ DropChurnShard
    \/ RecordResult
    \/ LimitChurn
    \/ UnlimitChurn
    \/ MinimizeChurn
    \/ Solve

SpecChurn == Init /\ [][ChurnNext]_vars

-----------------------------------------------------------------------------
(* Repeated calls: two shards on bare nodes, and Solve called again on the *)
(* inputs of the call before.                                              *)

MaxAgainShardId == 1

AgainShardIds == 0..MaxAgainShardId

AddAgainShard == \E id \in AgainShardIds : \E rf \in Rfs : AddReplica(id, rf, <<>>)

DropAgainShard == \E id \in AgainShardIds : RemoveReplica(id)

AgainNext ==
    \/ AddBareNode
    \/ DropNode
    \/ AddAgainShard
    \/ DropAgainShard
    \/ Solve
    \/ SolveAgain

SpecAgain == Init /\ [][AgainNext]_vars

-----------------------------------------------------------------------------
(* All constraints together: one shard on nodes that carry a tag or a disk *)
(* capacity, results recorded, and every switch of the configuration.      *)

MaxMonoNodeId == 1
MaxMonoRf == 1

MonoNodeIds == 0..MaxMonoNodeId
MonoShardIds == {0}

MonoNodeOptions ==
    {<<WithTagsOfNode(<<"a">>)>>, <<WithResourceOfNode(DiskResource, 1)>>}

MonoShardOptions ==
    {<<>>, <<WithTagsOfReplica(<<"a">>)>>, <<WithDemandOfReplica(DiskResource, 2)>>,
     <<WithTagsOfReplica(<<"a">>), WithDemandOfReplica(DiskResource, 2)>>}

AddMonoNode == \E id \in MonoNodeIds, opts \in MonoNodeOptions : AddNode(id, opts)

DropMonoNode == \E id \in MonoNodeIds : RemoveNode(id)

AddMonoShard ==
    \E id \in MonoShardIds, rf \in 1..MaxMonoRf, opts \in MonoShardOptions :
        AddReplica(id, rf, opts)

DropMonoShard == \E id \in MonoShardIds : RemoveReplica(id)

MonoNext ==
    \/ AddMonoNode
    \/ DropMonoNode
    \/ AddMonoShard
    \/ DropMonoShard
    \/ RecordResult
    \/ Configure
    \/ LimitChurn
    \/ UnlimitChurn
    \/ Solve

SpecMono == Init /\ [][MonoNext]_vars

-----------------------------------------------------------------------------
(* Arbitrary arguments: the ClusterState operations called with ids, rf    *)
(* and amounts from -1 upwards and with every list of up to two options.   *)

MaxArgId == 0
MaxArgAmount == 1
MaxArgTags == 2

ArgIds == -1..MaxArgId
ArgAmounts == -1..MaxArgAmount

NodeArgOptions ==
    {WithTagsOfNode(<<"a">>), AddTagsToNode(<<"b">>), RemoveAllTagsOfNode}
    \cup {WithResourceOfNode(DiskResource, a) : a \in ArgAmounts}

ReplicaArgOptions ==
    {WithTagsOfReplica(<<"a">>), AddTagsToReplica(<<"b">>), RemoveAllTagsOfReplica}
    \cup {WithReplicationFactorOfReplica(rf) : rf \in ArgAmounts}
    \cup {WithDemandOfReplica(DiskResource, a) : a \in ArgAmounts}

\* the lists of at most two options out of O
ArgLists(O) == {<<>>} \cup {<<o>> : o \in O} \cup {<<o, p>> : o \in O, p \in O}

\* AddTagsToNode appends: the tag slice of a node is kept within MaxArgTags
TagsWithinBound == \A n \in DOMAIN nodes' : Len(nodes'[n].tags) <= MaxArgTags

AddArgNode ==
    \E id \in ArgIds, opts \in ArgLists(NodeArgOptions) : AddNode(id, opts) /\ TagsWithinBound

UpdateArgNode ==
    \E id \in ArgIds, opts \in ArgLists(NodeArgOptions) : UpdateNode(id, opts) /\ TagsWithinBound

DropArgNode == \E id \in ArgIds : RemoveNode(id)

AddArgShard ==
    \E id \in ArgIds, rf \in ArgAmounts, opts \in ArgLists(ReplicaArgOptions) :
        AddReplica(id, rf, opts)

UpdateArgShard ==
    \E id \in ArgIds, opts \in ArgLists(ReplicaArgOptions) : UpdateReplica(id, opts)

DropArgShard == \E id \in ArgIds : RemoveReplica(id)

ArgsNext ==
    \/ AddArgNode
    \/ UpdateArgNode
    \/ DropArgNode
    \/ AddArgShard
    \/ UpdateArgShard
    \/ DropArgShard

SpecArgs == Init /\ [][ArgsNext]_vars

-----------------------------------------------------------------------------
(* Option lists: every list of up to two options, each with a value that   *)
(* its constructor accepts, given to UpdateConfiguration and to the add of *)
(* one node and of one shard.                                              *)

ListAmounts == 0..MaxArgAmount

ConfigurationListOptions ==
    SwitchOptions \cup {WithMaxChurn(k) : k \in 0..MaxChurn}
    \cup {DisableMaxChurn, WithReplicationFactor(MaxRf)}

NodeListOptions ==
    {WithTagsOfNode(<<"a">>), AddTagsToNode(<<"b">>), RemoveAllTagsOfNode}
    \cup {WithResourceOfNode(DiskResource, a) : a \in ListAmounts}

ReplicaListOptions ==
    {WithTagsOfReplica(<<"a">>), AddTagsToReplica(<<"b">>), RemoveAllTagsOfReplica}
    \cup {WithReplicationFactorOfReplica(rf) : rf \in ListAmounts}
    \cup {WithDemandOfReplica(DiskResource, a) : a \in ListAmounts}

Reconfigure == \E opts \in ArgLists(ConfigurationListOptions) : UpdateConfiguration(opts)

AddListedNode == \E opts \in ArgLists(NodeListOptions) : AddNode(0, opts)

AddListedShard ==
    \E rf \in ListAmounts, opts \in ArgLists(ReplicaListOptions) : AddReplica(0, rf, opts)

OptionsNext ==
    \/ Reconfigure
    \/ AddListedNode
    \/ AddListedShard

SpecOptions == Init /\ [][OptionsNext]_vars

-----------------------------------------------------------------------------
(* Removals: tagged nodes and shards added and removed, nothing else.      *)

RemoveNext ==
    \/ AddTaggedNode
    \/ DropTagNode
    \/ AddBareShard
    \/ DropShard

SpecRemove == Init /\ [][RemoveNext]_vars

-----------------------------------------------------------------------------
(* Fallback rf: shards added without an rf of their own, solved under a    *)
(* Configuration whose rf is the default or set by WithReplicationFactor.  *)

MaxFallbackNodeId == 2
MaxFallbackRf == 2

\* a shard added without an rf: its rf is the rf of the Configuration
AddShard(id) == AddReplica(id, config.rf, <<>>)

\* Every shard of this specification was added without an rf, and each takes
\* the rf of the Configuration it is solved under: a change of that rf is a
\* change of the rf of the shards present.
SetReplicationFactor(rf) ==
    /\ UNCHANGED <<nodes, currentAssignment, held>>
    /\ reply' = ConfigurationOptionsEnd(<<WithReplicationFactor(rf)>>)
    /\ config' = ApplyConfigurationOptions(config, <<WithReplicationFactor(rf)>>)
    /\ shards' = [s \in DOMAIN shards |-> [shards[s] EXCEPT !.rf = config'.rf]]
    /\ Idle

AddFallbackNode == \E id \in 0..MaxFallbackNodeId : AddNode(id, <<>>)

DropFallbackNode == \E id \in 0..MaxFallbackNodeId : RemoveNode(id)

AddFallbackShard == \E id \in ShardIds : AddShard(id)

SetFallback == \E rf \in 0..MaxFallbackRf : SetReplicationFactor(rf)

FallbackNext ==
    \/ AddFallbackNode
    \/ DropFallbackNode
    \/ AddFallbackShard
    \/ DropShard
    \/ SetFallback
    \/ Solve

SpecFallback == Init /\ [][FallbackNext]_vars

-----------------------------------------------------------------------------
(* Recorded assignments: the caller hands over allocations of every shape, *)
(* for shards and nodes present or not, and goes on assigning to them.     *)

MaxAssignLen == 1

\* the allocations of up to two shards with at most MaxAssignLen replicas
AssignmentArgs ==
    LET lists == UNION {[1..k -> {0, 1}] : k \in 0..MaxAssignLen}
    IN UNION {[S -> lists] : S \in SUBSET {0, 1}}

GiveAssignment == \E a \in AssignmentArgs : UpdateCurrentAssignment(a)

ChangeGiven == \E a \in AssignmentArgs : CallerAssigns(a)

AssignNext ==
    \/ GiveAssignment
    \/ ChangeGiven

SpecAssign == Init /\ [][AssignNext]_vars

-----------------------------------------------------------------------------
(* Prior assignments of every shape: one shard on up to two nodes, the     *)
(* churn options switched on and off, and assignments for the shard that   *)
(* are too short, too long, or name nodes that are gone.                   *)

MaxPriorRf == 1

PriorArgs == {a \in AssignmentArgs : DOMAIN a \subseteq {0}}

AddPriorNode == \E id \in {0, 1} : AddNode(id, <<>>)

DropPriorNode == \E id \in {0, 1} : RemoveNode(id)

AddPriorShard == \E rf \in 1..MaxPriorRf : AddReplica(0, rf, <<>>)

GivePrior == \E a \in PriorArgs : UpdateCurrentAssignment(a)

PriorNext ==
    \/ AddPriorNode
    \/ DropPriorNode
    \/ AddPriorShard
    \/ DropShard
    \/ GivePrior
    \/ LimitChurn
    \/ UnlimitChurn
    \/ MinimizeChurn
    \/ Solve

SpecPrior == Init /\ [][PriorNext]_vars

-----------------------------------------------------------------------------
(* Several failures at once: one shard that may ask for more replicas than *)
(* there are nodes, for more disk than the nodes have and for a tag that   *)
(* no node carries, under every switch of the configuration.               *)

MaxStageRf == 2

AddStageShard ==
    \E rf \in 1..MaxStageRf, opts \in MonoShardOptions : AddReplica(0, rf, opts)

StagesNext ==
    \/ AddMonoNode
    \/ DropMonoNode
    \/ AddStageShard
    \/ DropMonoShard
    \/ Configure
    \/ Solve

SpecStages == Init /\ [][StagesNext]_vars

-----------------------------------------------------------------------------
(* Round trips: a single shard on nodes whose ids may have gaps, results   *)
(* recorded as the current assignment, and Solve called again under a      *)
(* churn limit.                                                            *)

RoundNext ==
    \/ AddGapNode
    \/ DropGapNode
    \/ AddBareShard
    \/ DropShard
    \/ RecordResult
    \/ LimitChurn
    \/ UnlimitChurn
    \/ Solve

SpecRound == Init /\ [][RoundNext]_vars

-----------------------------------------------------------------------------
(* Rejected options: the update operations called with lists of up to two  *)
(* options, among them options that their closure or constructor rejects.  *)

ConfigurationArgOptions ==
    {WithChurnMinimized(TRUE), WithReplicationFactor(-1)}
    \cup {WithMaxChurn(k) : k \in {-1, 0}}

ReconfigureArg == \E opts \in ArgLists(ConfigurationArgOptions) : UpdateConfiguration(opts)

RejectNext ==
    \/ AddArgNode
    \/ UpdateArgNode
    \/ AddArgShard
    \/ UpdateArgShard
    \/ ReconfigureArg

SpecReject == Init /\ [][RejectNext]_vars

-----------------------------------------------------------------------------
(* Side by side: two callers of Solve over one ClusterState of up to two   *)
(* nodes and two shards, which is changed only while no call is running;   *)
(* the options may change between the entry of one call and of the other.  *)

MaxCallRf == 1

Calls == {1, 2}

Quiet == calls.allocators = EmptyMap

AddCallNode == Quiet /\ \E id \in {0, 1} : AddNode(id, <<>>)

DropCallNode == Quiet /\ \E id \in {0, 1} : RemoveNode(id)

AddCallShard == Quiet /\ \E id \in {0, 1}, rf \in 0..MaxCallRf : AddReplica(id, rf, <<>>)

DropCallShard == Quiet /\ \E id \in {0, 1} : RemoveReplica(id)

ConfigureCalls == \E b \in BOOLEAN : UpdateConfiguration(<<WithResources(b)>>)

EnterSolve == \E c \in Calls : Enter(c)

AdvanceSolve == \E c \in Calls : Advance(c)

AnswerSolve == \E c \in Calls : Answer(c)

LeaveSolve == \E c \in Calls : Leave(c)

CallsNext ==
    \/ AddCallNode
    \/ DropCallNode
    \/ AddCallShard
    \/ DropCallShard
    \/ ConfigureCalls
    \/ EnterSolve
    \/ AdvanceSolve
    \/ AnswerSolve
    \/ LeaveSolve

SpecCalls == Init /\ [][CallsNext]_vars

-----------------------------------------------------------------------------
(* Properties.                                                             *)

Succeeded == outcome = "returned" /\ err.kind = "nil"
Failed(kind) == outcome = "returned" /\ err.kind = kind

\* Go's lookup of a shard in the returned allocation: the nil (empty) list
\* for a shard without a key
ReplicasOf(s) == IF s \in DOMAIN allocation.map THEN allocation.map[s] ELSE <<>>

Placements == UNION {{<<s, i>> : i \in DOMAIN ReplicasOf(s)} : s \in DOMAIN shards}

\* C1: whenever Solve succeeds, every shard's replica list has exactly rf
\* entries and no node id occurs twice in it.
C1_ReplicaListsHaveRfDistinctNodes ==
    Succeeded =>
        \A s \in DOMAIN shards :
            /\ Len(ReplicasOf(s)) = shards[s].rf
            /\ \A i, j \in DOMAIN ReplicasOf(s) : i # j => ReplicasOf(s)[i] # ReplicasOf(s)[j]

C1_Witness ==
    /\ Succeeded
    /\ \E s \in DOMAIN shards : shards[s].rf >= 2 /\ Len(ReplicasOf(s)) = shards[s].rf

\* C6 (as claimed): whenever some shard's rf exceeds the number of nodes, Solve
\* returns RfExceedsCluster for the shards concerned, and returns it with no
\* variable and no constraint in the model.
C6_RfExceedsClusterBeforeModelWork ==
    (outcome # "idle" /\ rangeIdsWithInfeasibleRF # {}) =>
        /\ Failed("RfExceedsCluster")
        /\ err.ids = rangeIdsWithInfeasibleRF
        /\ model.vars = {}
        /\ model.cons = {}

\* C9 (as claimed): every call of Solve returns, and it returns a non-nil
\* allocation with a nil error exactly when the solver reported Feasible or
\* Optimal; under every other status the error is NotSolved, and whenever
\* the error is non-nil the allocation is nil.
C9_AllocationIffFeasibleOrOptimal ==
    outcome # "idle" =>
        /\ outcome = "returned"
        /\ (~allocation.isNil /\ err.kind = "nil") <=> status \in {"Feasible", "Optimal"}
        /\ status \in {"Infeasible", "Unknown"} => err.kind = "NotSolved"
        /\ err.kind # "nil" <=> allocation.isNil
        /\ allocation.isNil => allocation.map = <<>>

\* C2 (as claimed): after any sequence of AddNode and RemoveNode, every node
\* id in a successful result is the id of a node of the cluster.
C2_PlacedOnPresentNodes ==
    Succeeded => \A p \in Placements : ReplicasOf(p[1])[p[2]] \in DOMAIN nodes

\* C3 (as claimed): with tag affinity on, every node a shard is placed on in
\* a successful result carries all of the shard's tags.
C3_PlacedOnNodesCarryingTheTags ==
    (Succeeded /\ config.withTagAffinity) =>
        \A p \in Placements :
            LET n == ReplicasOf(p[1])[p[2]]
            IN /\ n \in DOMAIN nodes
               /\ shardTagsAreSubsetOfNodeTags(shards[p[1]].tags, NodeTagSet(n))

\* the demand that a successful result puts on node n for resource re
DemandOn(n, re) ==
    LET on == SetToSeq({p \in Placements : ReplicasOf(p[1])[p[2]] = n})
    IN SumSeq([i \in 1..Len(on) |-> Lookup(shards[on[i][1]].demands, re)])

WithinOwnCapacity(n, re, load) ==
    re \in DOMAIN nodes[n].resources => load <= nodes[n].resources[re]

\* C4 (as claimed): with capacity enforcement on, in a successful result the
\* demands placed on a node that declares a capacity for a resource add up to
\* at most that node's own capacity.
C4_EveryNodeWithinOwnCapacity ==
    (Succeeded /\ config.withResources) =>
        \A n \in DOMAIN nodes : \A re \in Range(ResourceOrder) :
            WithinOwnCapacity(n, re, DemandOn(n, re))

\* the positions of a successful result whose recorded node is still in the
\* cluster and is not the node the result names
ChurnedPositions ==
    {p \in Placements :
        /\ p[1] \in DOMAIN currentAssignment
        /\ p[2] \in DOMAIN currentAssignment[p[1]]
        /\ currentAssignment[p[1]][p[2]] \in DOMAIN nodes
        /\ ReplicasOf(p[1])[p[2]] # currentAssignment[p[1]][p[2]]}

\* C5: with maxChurn = K >= 0 and a recorded assignment, a successful result
\* differs from the recorded assignment in at most K positions whose recorded
\* node is still a node of the cluster.
C5_AtMostKMovesAwayFromLiveNodes ==
    (Succeeded /\ config.maxChurn >= 0) =>
        Cardinality(ChurnedPositions) <= config.maxChurn

C5_Witness ==
    /\ Succeeded
    /\ config.maxChurn = 1
    /\ Cardinality(ChurnedPositions) = 1
    /\ \E s \in DOMAIN currentAssignment : \E i \in DOMAIN currentAssignment[s] :
           currentAssignment[s][i] \notin DOMAIN nodes

\* the largest capacity that the nodes declare for a resource, when all do
AllDeclare(re) == NodeCount > 0 /\ \A n \in DOMAIN nodes : re \in DOMAIN nodes[n].resources

LargestCapacity(re) ==
    CHOOSE c \in {nodes[n].resources[re] : n \in DOMAIN nodes} :
        \A n \in DOMAIN nodes : nodes[n].resources[re] <= c

\* C7 (as claimed): with capacity enforcement on and every rf within the
\* cluster size, a total demand above the number of nodes times the largest
\* node capacity makes Solve fail with InsufficientCapacity.
C7_InsufficientCapacityReported ==
    (/\ outcome # "idle"
     /\ config.withResources
     /\ rangeIdsWithInfeasibleRF = {}
     /\ \E re \in Range(ResourceOrder) :
            AllDeclare(re) /\ rawDemand(re) > NodeCount * LargestCapacity(re))
    => Failed("InsufficientCapacity")

\* C8 (as claimed): with tag affinity on and every rf within the cluster
\* size, a shard whose tags no node carries makes Solve fail with
\* TagsUnsatisfiable for that shard, without a call of the solver.
C8_TagsUnsatisfiableReported ==
    (/\ outcome # "idle"
     /\ config.withTagAffinity
     /\ rangeIdsWithInfeasibleRF = {}
     /\ rangeIdsWithWaywardTags # {})
    => /\ Failed("TagsUnsatisfiable")
       /\ err.ids = rangeIdsWithWaywardTags
       /\ status = "NotInvoked"

\* the allocations that put every shard on rf distinct nodes of the cluster
\* and keep every node within the capacity it declares itself
PerNodeAllocations ==
    {f \in [DOMAIN shards -> UNION {Tuples(DOMAIN nodes, shards[s].rf) : s \in DOMAIN shards}] :
        /\ \A s \in DOMAIN shards :
               /\ Len(f[s]) = shards[s].rf
               /\ \A i, j \in DOMAIN f[s] : i # j => f[s][i] # f[s][j]
        /\ \A n \in DOMAIN nodes : \A re \in Range(ResourceOrder) :
               LET on == SetToSeq({p \in AssignmentVars : f[p[1]][p[2]] = n})
               IN WithinOwnCapacity(n, re,
                      SumSeq([i \in 1..Len(on) |-> Lookup(shards[on[i][1]].demands, re)]))}

\* C10 (as claimed, on clusters of n > 0 nodes with ids 0..n-1): with capacity
\* enforcement on and a solver that runs to completion, Solve succeeds
\* whenever some allocation keeps every node within its own capacity.
C10_SucceedsWheneverPerNodeAllocationExists ==
    (/\ outcome # "idle"
     /\ config.withResources
     /\ NodeCount > 0
     /\ DOMAIN nodes = 0..(NodeCount - 1)
     /\ status # "Unknown"
     /\ PerNodeAllocations # {})
    => Succeeded

\* the nodes of the cluster that carry every tag of shard s
CompatibleNodes(s) ==
    {n \in DOMAIN nodes : shardTagsAreSubsetOfNodeTags(shards[s].tags, NodeTagSet(n))}

\* C11 (as claimed): with tag affinity on and every rf within the cluster
\* size, a shard that has at least one but fewer than rf tag-compatible nodes
\* makes a Solve that returns fail with NotSolved and return no allocation.
C11_TooFewCompatibleNodesIsNotSolved ==
    (/\ outcome = "returned"
     /\ config.withTagAffinity
     /\ rangeIdsWithInfeasibleRF = {}
     /\ \E s \in DOMAIN shards :
            /\ CompatibleNodes(s) # {}
            /\ Cardinality(CompatibleNodes(s)) < shards[s].rf)
    => /\ Failed("NotSolved")
       /\ allocation.isNil

\* the values of a successful result, shard by shard
ResultValues == [s \in DOMAIN shards |-> ReplicasOf(s)]

\* the sum over the resources of the largest load that f puts on one node
SumOfPeaks(f) ==
    SumSeq([i \in 1..Len(ResourceOrder) |-> Peak(f, Tasks(model, ResourceOrder[i]))])

\* C12 (as claimed): with capacity enforcement and balancing on, a result
\* that the solver reports Optimal has the least sum over the resources of
\* the largest per-node load among all allocations that satisfy the posted
\* constraints.
C12_OptimalMinimisesSumOfPeaks ==
    (Succeeded /\ config.withResources /\ status = "Optimal") =>
        \A g \in Solutions(model) : SumOfPeaks(ResultValues) <= SumOfPeaks(g)

\* a step of Solve: a caller without a result gets one, or a panic
SolveStep == outcome = "idle" /\ outcome' # "idle"

\* C13: Solve leaves its inputs alone: on every path, success, error or
\* panic, the nodes, the shards, the current assignment and every field of
\* the configuration are after the call what they were before it.
C13_SolveLeavesItsInputs ==
    [][SolveStep => UNCHANGED <<nodes, shards, currentAssignment, config>>]_vars

C13_Witness ==
    /\ Succeeded
    /\ currentAssignment # EmptyMap
    /\ allocation.map # currentAssignment

\* a second Solve on the inputs of the first
SecondSolveStep == outcome = "returned" /\ outcome' = "returned" /\ UNCHANGED <<cluster, config>>

\* C14 (as claimed): a Solve called again on the same ClusterState and
\* options goes through the shards in the order of the call before, and so
\* builds the same sequence of variables and constraints.
C14_SecondSolveTraversesInTheSameOrder ==
    [][SecondSolveStep => model'.order = model.order]_vars

\* the configurations that differ from c in switches turned off and in a
\* churn limit removed or raised
Weakened(c) ==
    {[c EXCEPT !.withResources = re, !.withTagAffinity = ta,
               !.withMinimalChurn = mi, !.maxChurn = k] :
        re \in {c.withResources, FALSE}, ta \in {c.withTagAffinity, FALSE},
        mi \in {c.withMinimalChurn, FALSE},
        k \in {noMaxChurn} \cup {j \in 0..(MaxChurn + 1) : c.maxChurn # noMaxChurn /\ j >= c.maxChurn}}

\* a Solve under configuration c whose search runs to completion succeeds
SucceedsUnder(c) ==
    \A order \in Traversals :
        LET b == BuildUnder(c, order)
        IN b.end = "ok" /\ Validate(b.m) /\ Solutions(b.m) # {}

\* C15: whenever Solve succeeds under a configuration, a Solve of the same
\* ClusterState whose search runs to completion succeeds under every
\* configuration that has capacity enforcement, tag affinity or churn
\* minimisation turned off, or the churn limit removed or raised.
C15_WeakerConfigurationStillSucceeds ==
    Succeeded => \A c \in Weakened(config) : SucceedsUnder(c)

C15_Witness ==
    /\ Succeeded
    /\ config.withResources /\ config.withTagAffinity /\ config.withMinimalChurn
    /\ config.maxChurn = 0
    /\ toMinimizeTheSumLiterals # {}
    /\ \E s \in DOMAIN shards : shards[s].tags # {} /\ shards[s].demands # EmptyMap

\* C16 (as claimed): UpdateNode and UpdateReplica, called with options that
\* carry no negative value, return true when the id is present, and return
\* false and leave the whole ClusterState as it was when the id is absent.
C16_UpdateReturnsWhetherIdIsPresent ==
    [][/\ \A id \in ArgIds, opts \in ArgLists(NodeArgOptions) :
              UpdateNode(id, opts) =>
                  IF id \in DOMAIN nodes THEN reply' = "true"
                  ELSE reply' = "false" /\ UNCHANGED cluster
       /\ \A id \in ArgIds, opts \in ArgLists(ReplicaArgOptions) :
              (ReplicaOptionsMade(opts) /\ UpdateReplica(id, opts)) =>
                  IF id \in DOMAIN shards THEN reply' = "true"
                  ELSE reply' = "false" /\ UNCHANGED cluster]_vars

\* C17 (as claimed): AddNode and AddReplica on an id that is present, called
\* with arguments that carry no negative value, put in its place the entry
\* that the arguments of this call alone determine, and leave the number of
\* entries as it was.
C17_AddReplacesTheEntry ==
    [][/\ \A id \in (DOMAIN nodes) \cap ArgIds, opts \in ArgLists(NodeArgOptions) :
              AddNode(id, opts) =>
                  /\ nodes'[id] = ApplyNodeOptions(newNode(id), opts)
                  /\ DOMAIN nodes' = DOMAIN nodes
       /\ \A id \in (DOMAIN shards) \cap ArgIds, rf \in 0..MaxArgAmount,
             opts \in ArgLists(ReplicaArgOptions) :
              (ReplicaOptionsMade(opts) /\ AddReplica(id, rf, opts)) =>
                  /\ shards'[id] = ApplyReplicaOptions(newReplica(id, rf), opts)
                  /\ DOMAIN shards' = DOMAIN shards]_vars

\* C19 (as claimed): whatever the arguments and options of the calls made so
\* far, every id stored in the ClusterState is non-negative, every stored rf
\* is non-negative, and so is every stored capacity and demand.
C19_StoredValuesAreNonNegative ==
    /\ \A n \in DOMAIN nodes :
           /\ n >= 0 /\ nodes[n].id >= 0
           /\ \A re \in DOMAIN nodes[n].resources : nodes[n].resources[re] >= 0
    /\ \A s \in DOMAIN shards :
           /\ s >= 0 /\ shards[s].id >= 0
           /\ shards[s].rf >= 0
           /\ \A re \in DOMAIN shards[s].demands : shards[s].demands[re] >= 0

\* C18: RemoveNode and RemoveReplica return without an error whether the id
\* is present or not, leave the ClusterState as it was when it is absent,
\* and leave the id absent, so that a second removal of the same id changes
\* nothing; the other entries stay.
C18_RemoveIsIdempotent ==
    [][/\ \A id \in TagNodeIds :
              RemoveNode(id) =>
                  /\ reply' = "ok"
                  /\ id \notin DOMAIN nodes => UNCHANGED cluster
                  /\ id \notin DOMAIN nodes'
                  /\ Delete(nodes', id) = nodes'
                  /\ \A n \in (DOMAIN nodes) \ {id} : n \in DOMAIN nodes' /\ nodes'[n] = nodes[n]
       /\ \A id \in ShardIds :
              RemoveReplica(id) =>
                  /\ reply' = "ok"
                  /\ id \notin DOMAIN shards => UNCHANGED cluster
                  /\ id \notin DOMAIN shards'
                  /\ Delete(shards', id) = shards'
                  /\ \A r \in (DOMAIN shards) \ {id} : r \in DOMAIN shards' /\ shards'[r] = shards[r]]_vars

\* only a removal leaves an empty ClusterState behind: of an absent id, or of
\* the last entry
C18_Witness == nodes = EmptyMap /\ shards = EmptyMap /\ reply = "ok"

\* the field of the configuration that an option writes, and the value
ConfigurationWrite(o) ==
    CASE o.op = "WithResources" -> [field |-> "withResources", value |-> o.enable]
      [] o.op = "WithTagMatching" -> [field |-> "withTagAffinity", value |-> o.enable]
      [] o.op = "WithChurnMinimized" -> [field |-> "withMinimalChurn", value |-> o.enable]
      [] o.op = "WithVerboseLogging" -> [field |-> "verboseLogging", value |-> o.enable]
      [] o.op = "WithMaxChurn" -> [field |-> "maxChurn", value |-> o.maxChurn]
      [] o.op = "DisableMaxChurn" -> [field |-> "maxChurn", value |-> noMaxChurn]
      [] o.op = "WithReplicationFactor" -> [field |-> "rf", value |-> o.rf]

\* the greatest of the indices is, 0 when there is none
LastWriter(is) == IF is = {} THEN 0 ELSE CHOOSE i \in is : \A j \in is : j <= i

\* c with every field written by the last option of opts that writes it
LastWriterWins(c, opts) ==
    [f \in DOMAIN c |->
        LET w == LastWriter({i \in DOMAIN opts : ConfigurationWrite(opts[i]).field = f})
        IN IF w = 0 THEN c[f] ELSE ConfigurationWrite(opts[w]).value]

\* the amount that the last option of opts for resource re carries, from
\* where on none stands when no option names the resource
LastAmount(from, opts, re) ==
    LET w == LastWriter({i \in DOMAIN opts :
                            /\ opts[i].op \in {"WithResourceOfNode", "WithDemandOfReplica"}
                            /\ opts[i].re = re})
    IN IF w = 0 THEN from ELSE (re :> opts[w].amount)

\* the tags after the tag options of opts, one after the other
RECURSIVE TagsAfter(_, _)
TagsAfter(tags, opts) ==
    IF opts = <<>> THEN tags
    ELSE LET o == Head(opts)
         IN TagsAfter(
                CASE o.op \in {"WithTagsOfNode", "WithTagsOfReplica"} -> Range(o.tags)
                  [] o.op \in {"AddTagsToNode", "AddTagsToReplica"} -> tags \cup Range(o.tags)
                  [] o.op \in {"RemoveAllTagsOfNode", "RemoveAllTagsOfReplica"} -> {}
                  [] OTHER -> tags,
                Tail(opts))

\* C20 (as claimed): the options of a list are applied in the order given and
\* the last writer of a field wins: after UpdateConfiguration every field
\* holds the value of the last option of the list that writes it and every
\* other field holds what it held, so WithMaxChurn(K) followed by
\* DisableMaxChurn leaves the limit inactive; a node or a shard added with a
\* list of options holds the amount and the rf of the last option that
\* writes them and the tags that the tag options yield one after the other.
C20_OptionsApplyInOrderLastWriterWins ==
    [][/\ \A opts \in ArgLists(ConfigurationListOptions) :
              UpdateConfiguration(opts) => config' = LastWriterWins(config, opts)
       /\ \A k \in 0..MaxChurn :
              UpdateConfiguration(<<WithMaxChurn(k), DisableMaxChurn>>) =>
                  config'.maxChurn = noMaxChurn
       /\ \A opts \in ArgLists(NodeListOptions) :
              AddNode(0, opts) =>
                  /\ 0 \in DOMAIN nodes'
                  /\ nodes'[0].resources = LastAmount(EmptyMap, opts, DiskResource)
                  /\ Range(nodes'[0].tags) = TagsAfter({}, opts)
       /\ \A rf \in ListAmounts, opts \in ArgLists(ReplicaListOptions) :
              AddReplica(0, rf, opts) =>
                  /\ 0 \in DOMAIN shards'
                  /\ LET w == LastWriter({i \in DOMAIN opts :
                                             opts[i].op = "WithReplicationFactorOfReplica"})
                     IN shards'[0].rf = IF w = 0 THEN rf ELSE opts[w].rf
                  /\ shards'[0].demands = LastAmount(EmptyMap, opts, DiskResource)
                  /\ shards'[0].tags = TagsAfter({}, opts)]_vars

SolveOutcomes == UNION {ResultsOf(Build(order)) : order \in Traversals}

NoChurnOption == ~config.withMinimalChurn /\ config.maxChurn = noMaxChurn

\* C23: with churn minimisation off and no churn limit, the prior assignment
\* has no influence on Solve: every step that changes nothing but the
\* current assignment, to one that is well formed, too short, too long or
\* stale, leaves what Solve can end with as it was: the same outcome, the
\* same error, the same allocations; and what a Solve ends with is one of
\* these.
C23_PriorAssignmentIsNotReadWithoutChurnOptions ==
    [][/\ (NoChurnOption /\ UNCHANGED <<nodes, shards, config>>) =>
              SolveOutcomes' = SolveOutcomes
       /\ SolveStep => <<outcome', allocation', err', status'>> \in SolveOutcomes]_vars

\* a Solve has succeeded with no churn option over a prior assignment that
\* is shorter than the rf of its shard
C23_Witness ==
    /\ Succeeded
    /\ NoChurnOption
    /\ ChurnPanics

\* the shards whose prior entry has as many slots as the shard has replicas
ShardsWithFittingPrior ==
    {s \in (DOMAIN shards) \cap (DOMAIN currentAssignment) :
        Len(currentAssignment[s]) = shards[s].rf}

\* C24 (as claimed): with a churn option on, only the shards whose prior
\* entry is as long as their rf get churn indicators and count against
\* maxChurn; a shard without a prior entry, or with a prior entry shorter or
\* longer than its rf, gets none and does not make Solve crash.
C24_IndicatorsOnlyForPriorOfLengthRf ==
    (outcome # "idle" /\ ~NoChurnOption) =>
        /\ \A c \in model.cons :
               /\ c.type = "OnlyEnforceIf" => c.s \in ShardsWithFittingPrior
               /\ c.type = "AtMostK" => \A l \in c.lits : l[1] \in ShardsWithFittingPrior
        /\ outcome = "panicked" => VariablesPanic

\* the kinds of constraint that the stages after the resources post
AfterResources(c) ==
    \/ c.type \in {"ForbiddenAssignments", "OnlyEnforceIf", "AtMostK"}
    \/ c.type = "AllDifferent" /\ c.pass = 2

\* the kinds of constraint that the stages after the tags post
AfterTags(c) ==
    \/ c.type \in {"OnlyEnforceIf", "AtMostK"}
    \/ c.type = "AllDifferent" /\ c.pass = 2

\* the demand for some resource exceeds what the nodes are taken to hold
CapacityShort ==
    /\ 0 \in DOMAIN nodes
    /\ \E re \in Range(ResourceOrder) : rawCapacity(re) * NodeCount < rawDemand(re)

StandingTerms ==
    IF HasObjective(model) THEN {model.minimize[Len(model.minimize)]} ELSE {}

\* one ceiling per resource when the resources are on, and the broken
\* indicators when churn is minimised
ActiveTerms ==
    (IF config.withResources THEN {CapacityTerm(re) : re \in Range(ResourceOrder)} ELSE {})
    \cup (IF config.withMinimalChurn THEN {ChurnTerm(toMinimizeTheSumLiterals)} ELSE {})

\* C26 (as claimed): the model that the solver gets has one objective, the
\* sum of all active terms: the ceiling of every resource when the resources
\* are on, plus the broken indicators when churn is minimised; with neither
\* on it has no objective.
C26_ObjectiveIsTheSumOfAllActiveTerms ==
    status # "NotInvoked" => StandingTerms = ActiveTerms

\* the options that write tags
TagOptions(O) ==
    {o \in O : o.op \in {"WithTagsOfNode", "AddTagsToNode", "RemoveAllTagsOfNode",
                          "WithTagsOfReplica", "AddTagsToReplica", "RemoveAllTagsOfReplica"}}

\* C27 (as claimed): a tag option acts on the tags of a node or a shard as on
\* a set, whether the node or shard was never tagged, is tagged, or had all
\* its tags removed: add-tags leaves the union of the tags there were and
\* the tags given, set-tags the tags given, remove-all-tags none.
C27_TagOptionsActOnSets ==
    [][/\ \A id \in (DOMAIN nodes) \cap ArgIds, o \in TagOptions(NodeArgOptions) :
              UpdateNode(id, <<o>>) =>
                  Range(nodes'[id].tags) = TagsAfter(Range(nodes[id].tags), <<o>>)
       /\ \A id \in (DOMAIN shards) \cap ArgIds, o \in TagOptions(ReplicaArgOptions) :
              UpdateReplica(id, <<o>>) =>
                  /\ reply' = "true"
                  /\ shards'[id].tags = TagsAfter(shards[id].tags, <<o>>)]_vars

\* the caller records the allocation that the Solve before has returned for
\* the ClusterState as it is
RecordStep ==
    /\ Succeeded
    /\ currentAssignment' = allocation.map
    /\ UNCHANGED <<nodes, shards, config>>

\* a Solve of the present ClusterState under the present options and
\* maxChurn = 0 whose search runs to completion succeeds, and returns the
\* current assignment position by position
ReturnsTheCurrentAssignment ==
    \A order \in Traversals :
        LET b == BuildUnder([config EXCEPT !.maxChurn = 0], order)
        IN /\ b.end = "ok"
           /\ Validate(b.m)
           /\ Solutions(b.m) # {}
           /\ \A f \in Solutions(b.m) : Decode(f).map = currentAssignment

\* C28 (as claimed): when Solve has succeeded with an allocation and the
\* allocation is recorded with UpdateCurrentAssignment, a Solve of the
\* otherwise unchanged ClusterState with maxChurn = 0 succeeds and returns
\* that allocation, the same node in every slot of every shard.
C28_RoundTripReturnsTheRecordedAllocation ==
    [][RecordStep => ReturnsTheCurrentAssignment']_vars

\* the call ended in the panic of one of its options
Rejected(r) == r \notin {"none", "ok", "true", "false"}

\* C29 (as claimed): when an option of an UpdateConfiguration, UpdateNode or
\* UpdateReplica call is rejected, no option of that call has taken effect:
\* the Configuration and the ClusterState are as they were before the call.
C29_RejectedOptionLeavesTargetUnchanged ==
    [][Rejected(reply') => UNCHANGED <<nodes, shards, config>>]_vars

Running == DOMAIN calls.allocators

\* the calls whose allocator the step has written, made or dropped
Movers ==
    {c \in Calls : IF c \in Running /\ c \in Running'
                    THEN calls.allocators'[c] # calls.allocators[c]
                    ELSE (c \in Running) # (c \in Running')}

\* what a Solve with the configuration of allocator a ends with when it runs
\* alone over the present ClusterState
AloneOutcomes(a) == UNION {ResultsOf(BuildUnder(a.config, order)) : order \in Traversals}

\* no two running calls refer to one model
OwnsItsModel ==
    \A c, d \in DOMAIN calls.allocators :
        c # d => calls.allocators[c].model # calls.allocators[d].model

\* a model that the step has written is the model of the call that took it
WritesItsOwnModel ==
    \A k \in (DOMAIN calls.models) \cap (DOMAIN calls.models') :
        calls.models'[k] # calls.models[k] =>
            \E c \in Movers : c \in DOMAIN calls.allocators /\ calls.allocators[c].model = k

\* a call that has ended has ended as the same Solve can end when it runs
\* alone
EndsAsAlone ==
    \A c \in DOMAIN calls.allocators :
        calls.allocators[c].pc = "done" =>
            calls.allocators[c].res \in AloneOutcomes(calls.allocators[c])

\* C30: two Solve calls interleaved stage by stage over one ClusterState
\* that nothing else changes do not interfere: every call has a model of
\* its own, a step of a call writes that model and the allocator of that
\* call only and leaves the ClusterState as it is, and every call ends with
\* an outcome that the same Solve can end with when it runs alone.
C30_InterleavedSolvesDoNotInterfere ==
    /\ [](OwnsItsModel /\ EndsAsAlone)
    /\ [][Movers # {} =>
             /\ Cardinality(Movers) = 1
             /\ UNCHANGED cluster
             /\ WritesItsOwnModel]_vars

\* one call has ended with an allocation while the other, entered with other
\* options, stands between two stages with variables in its model
C30_Witness ==
    \E c, d \in DOMAIN calls.allocators :
        /\ calls.allocators[c].pc = "done"
        /\ calls.allocators[c].res[1] = "returned"
        /\ calls.allocators[c].res[3].kind = "nil"
        /\ calls.allocators[c].res[2].map # EmptyMap
        /\ calls.allocators[d].pc = "tags"
        /\ calls.allocators[d].config # calls.allocators[c].config
        /\ calls.models[calls.allocators[d].model].vars # {}

====
